---------------------------- MODULE Spec2Model ----------------------------
(***************************************************************************)
(* A model of the submission pipeline of bulk-downloader-for-reddit:       *)
(*   bdfr/site_downloaders/download_factory.py  (DownloadFactory)          *)
(*   bdfr/downloader.py                         (RedditDownloader)         *)
(*                                                                         *)
(* Text (URLs, names) is a sequence of one-character strings, so that the  *)
(* regular expressions and str.lower() are computed character by           *)
(* character.  A file is a record of an inode and its bytes; a hard link   *)
(* is a second path carrying the same inode.                               *)
(***************************************************************************)
EXTENDS Integers, Sequences, FiniteSets, TLC

VARIABLES
    pc,                \* position of the run: "init", "download", "resources",
                       \* "done", "raised"; "dispatch"/"dispatched" in SpecDispatch
    args,              \* self.args, the Configuration
    fs,                \* the output tree: path -> file
    dirs,              \* the directories that exist under the output tree
    master_hash_list,  \* self.master_hash_list: hash -> path
    pulled,            \* how many submissions download() has pulled so far
    submission,        \* the submission _download_submission is working on
    downloader_class,  \* what DownloadFactory.pull_lever gave for it
    content,           \* how many (destination, res) pairs the loop of line 153
                       \* has still to take from format_resource_paths(...)
    found,             \* how find_resources ended for it: "not_called", "error", "ok"
    outcome,           \* how the last pass of that loop ended (NoOutcome: none yet)
    pool               \* the Pool of scan_existing_files: the files handed to
                       \* pool.map, the tasks its workers are at, the results

vars == <<pc, args, fs, dirs, master_hash_list, pulled, submission,
          downloader_class, content, found, outcome, pool>>

-----------------------------------------------------------------------------
(* Bounds of the model *)

MaxSubmissions == 2
MaxResources == 2
NumPaths == 2
MaxExisting == 1
NumContents == 2
NumScanFiles == 3

-----------------------------------------------------------------------------
(* Text *)

lowercase_letters == <<"a","b","c","d","e","f","g","h","i","j","k","l","m","n","o","p","q","r","s","t","u","v","w","x","y","z">>
uppercase_letters == <<"A","B","C","D","E","F","G","H","I","J","K","L","M","N","O","P","Q","R","S","T","U","V","W","X","Y","Z">>
digits == <<"0","1","2","3","4","5","6","7","8","9">>

Range(s) == {s[i] : i \in DOMAIN s}

\* the lower-case letter of every upper-case letter
lower_map ==
    [c \in Range(uppercase_letters) |->
        lowercase_letters[CHOOSE i \in DOMAIN uppercase_letters : uppercase_letters[i] = c]]

\* str.lower(), one character
lower_char(c) == IF c \in DOMAIN lower_map THEN lower_map[c] ELSE c

\* str.lower()
lower(s) == [i \in DOMAIN s |-> lower_char(s[i])]

\* the regular expression class \w
word_chars == Range(lowercase_letters) \cup Range(uppercase_letters) \cup Range(digits) \cup {"_"}

\* the regular expression class \s
space_chars == {" "}

\* the first place from i on where s holds a character of `chars`,
\* Len(s) + 1 when there is none
RECURSIVE find_from(_, _, _)
find_from(s, chars, i) ==
    IF i > Len(s) \/ s[i] \in chars THEN i ELSE find_from(s, chars, i + 1)

\* str.find(c) + 1: the first place of c in s, 0 when there is none
find(s, c) ==
    LET i == find_from(s, {c}, 1) IN IF i > Len(s) THEN 0 ELSE i

-----------------------------------------------------------------------------
(* bdfr/site_downloaders/download_factory.py *)

\* urllib.parse.scheme_chars
scheme_chars == Range(lowercase_letters) \cup Range(uppercase_letters) \cup Range(digits) \cup {"+", "-", "."}

\* urllib.parse.urlsplit(url), the netloc and the path of the result
urlsplit(url) ==
    LET colon == find(url, ":")
        has_scheme == /\ colon > 1
                      /\ url[1] \in Range(lowercase_letters) \cup Range(uppercase_letters)
                      /\ \A k \in 1..(colon - 1) : url[k] \in scheme_chars
        rest == IF has_scheme THEN SubSeq(url, colon + 1, Len(url)) ELSE url
        has_netloc == Len(rest) >= 2 /\ rest[1] = "/" /\ rest[2] = "/"
        delim == find_from(rest, {"/", "?", "#"}, 3)
        netloc == IF has_netloc THEN SubSeq(rest, 3, delim - 1) ELSE << >>
        after == IF has_netloc THEN SubSeq(rest, delim, Len(rest)) ELSE rest
        hash == find(after, "#")
        no_fragment == IF hash > 0 THEN SubSeq(after, 1, hash - 1) ELSE after
        question == find(no_fragment, "?")
        path == IF question > 0 THEN SubSeq(no_fragment, 1, question - 1) ELSE no_fragment
    IN  [netloc |-> netloc, path |-> path]

\* the first place from i on where s holds no \s, Len(s) + 1 when none
RECURSIVE skip_spaces(_, _)
skip_spaces(s, i) ==
    IF i > Len(s) \/ s[i] \notin space_chars THEN i ELSE skip_spaces(s, i + 1)

\* where the match of \s*(www\.?)? that starts at place i of s ends (exclusive)
beginning_regex_end(s, i) ==
    LET w == skip_spaces(s, i)
        www == w + 2 <= Len(s) /\ s[w] = "w" /\ s[w + 1] = "w" /\ s[w + 2] = "w"
        dot == www /\ w + 3 <= Len(s) /\ s[w + 3] = "."
    IN  IF dot THEN w + 4 ELSE IF www THEN w + 3 ELSE w

\* re.sub(beginning_regex, "", s) from place i on: every match, wherever it
\* is in s, is removed
RECURSIVE re_sub_beginning(_, _)
re_sub_beginning(s, i) ==
    IF i > Len(s) THEN << >>
    ELSE LET e == beginning_regex_end(s, i)
         IN  IF e > i THEN re_sub_beginning(s, e)
             ELSE <<s[i]>> \o re_sub_beginning(s, i + 1)

sanitise_url(url) ==
    LET split_url == urlsplit(url)
    IN  re_sub_beginning(split_url.netloc \o split_url.path, 1)

web_extensions == {
    <<"a","s","p">>, <<"a","s","p","x">>, <<"c","f","m">>, <<"c","f","m","l">>,
    <<"c","s","s">>, <<"h","t","m">>, <<"h","t","m","l">>, <<"j","s">>,
    <<"p","h","p">>, <<"p","h","p","3">>, <<"x","h","t","m","l">> }

\* the same without (?i): the extension is matched in lower case only
is_web_resource_case_sensitive(url) ==
    \E j \in {k \in DOMAIN url : url[k] = "."} :
        /\ \E i \in 1..(j - 1) : url[i] = "/"
        /\ SubSeq(url, j + 1, Len(url)) \in web_extensions

\* re.match(rf'(?i).*/.*\.({"|".join(web_extensions)})$', url)
is_web_resource(url) ==
    \E j \in {k \in DOMAIN url : url[k] = "."} :
        /\ \E i \in 1..(j - 1) : url[i] = "/"
        /\ lower(SubSeq(url, j + 1, Len(url))) \in web_extensions

\* re.match(r".*/.*\.\w{3,4}(\?[\w;&=]*)?$", url)
file_extension_match(url) ==
    \E j \in {k \in DOMAIN url : url[k] = "."}, n \in {3, 4} :
        /\ \E i \in 1..(j - 1) : url[i] = "/"
        /\ j + n <= Len(url)
        /\ \A k \in (j + 1)..(j + n) : url[k] \in word_chars
        /\ \/ j + n = Len(url)
           \/ /\ url[j + n + 1] = "?"
              /\ \A k \in (j + n + 2)..Len(url) : url[k] \in word_chars \cup {";", "&", "="}

self_post_prefix == <<"r","e","d","d","i","t",".","c","o","m","/","r","/">>

\* re.search in place of re.match: the pattern anywhere in url
self_post_search(url) ==
    \E i \in DOMAIN url :
        /\ i + Len(self_post_prefix) - 1 <= Len(url)
        /\ SubSeq(url, i, i + Len(self_post_prefix) - 1) = self_post_prefix

\* re.match(r"reddit\.com/r/", url)
self_post_match(url) ==
    /\ Len(url) >= Len(self_post_prefix)
    /\ SubSeq(url, 1, Len(self_post_prefix)) = self_post_prefix

SelfPost == <<"S","e","l","f","P","o","s","t">>
NotADownloadableLinkError == <<"N","o","t","A","D","o","w","n","l","o","a","d","a","b","l","e","L","i","n","k","E","r","r","o","r">>

\* the two rules in the other order: the self-post pattern is tried first
pull_lever_self_post_first(url) ==
    LET sanitised_url == sanitise_url(url)
    IN  IF self_post_match(sanitised_url)
        THEN SelfPost
        ELSE NotADownloadableLinkError

\* DownloadFactory.pull_lever: the class returned, or the error raised
pull_lever(url) ==
    LET sanitised_url == sanitise_url(url)
    IN  IF file_extension_match(sanitised_url) /\ ~is_web_resource(sanitised_url)
        THEN NotADownloadableLinkError
        ELSE IF self_post_match(sanitised_url)
        THEN SelfPost
        ELSE NotADownloadableLinkError

-----------------------------------------------------------------------------
(* bdfr/downloader.py: the data *)

Paths == 1..NumPaths
Contents == 1..NumContents

\* the directory a path is in (destination.parent): paths 1 and 2 share one
Parent(p) == (p + 1) \div 2

NoFile == [ino |-> 0, data |-> 0]

\* what is on disk of `data` when the write broke off: not the whole of it
truncated(data) == 0

\* a file this run creates at path p holding data: a new inode, named by p
\* (no path is created twice, the run removes nothing)
new_file(p, data) == [ino |-> p, data |-> data]

\* hashlib.md5(...).hexdigest() of the bytes: one digest per content
hexdigest(data) == <<"md5", data>>

None == << >>

\* no Pool has been made: scan_existing_files is not running
NoPool == [files |-> << >>, taken |-> 0, running |-> {}, results |-> << >>]

\* _calc_hash(existing_file) -> (existing_file, file_hash)
calc_hash(files, existing_file) == <<existing_file, hexdigest(files[existing_file].data)>>

\* {res[1]: res[0] for res in results}: a later result replaces an earlier
\* one with the same hash
RECURSIVE hash_list_of(_)
hash_list_of(results) ==
    IF results = << >> THEN << >>
    ELSE LET n == Len(results)
             res == results[n]
         IN  (res[2] :> res[1]) @@ hash_list_of(SubSeq(results, 1, n - 1))

\* the orders in which os.walk may list the files that exist
Enumerations(files) ==
    LET existing == {p \in DOMAIN files : files[p] # NoFile}
    IN  {order \in [1..Cardinality(existing) -> existing] :
            \A i, j \in DOMAIN order : i # j => order[i] # order[j]}

\* RedditDownloader.scan_existing_files, given the order of os.walk;
\* pool.map returns the results in the order of `files`
scan_existing_files(fsys, files) ==
    hash_list_of([i \in DOMAIN files |-> calc_hash(fsys, files[i])])

-----------------------------------------------------------------------------
(* bdfr/downloader.py: the filters of _download_submission *)

pics == <<"p","i","c","s">>
Pics == <<"P","i","c","s">>
test == <<"t","e","s","t">>
alice == <<"a","l","i","c","e">>
DELETED == <<"D","E","L","E","T","E","D">>
selfpost == <<"s","e","l","f","p","o","s","t">>

\* lines 101-135 without the elif of line 133: the URL is not checked
filter_reason_without_url_check(a, s) ==
    IF s.id \in a.excluded_submission_ids THEN "excluded"
    ELSE IF lower(s.subreddit) \in a.skip_subreddit THEN "skip_subreddit"
    ELSE IF \/ (s.author # None /\ s.author \in a.ignore_user)
            \/ (s.author = None /\ DELETED \in a.ignore_user) THEN "ignore_user"
    ELSE IF a.min_score # 0 /\ s.score < a.min_score THEN "min_score"
    ELSE IF a.max_score # 0 /\ a.max_score < s.score THEN "max_score"
    ELSE IF \/ (a.min_score_ratio # 0 /\ s.upvote_ratio < a.min_score_ratio)
            \/ (a.max_score_ratio # 0 /\ a.max_score_ratio < s.upvote_ratio) THEN "score_ratio"
    ELSE IF ~s.is_submission THEN "not_submission"
    ELSE "pass"

\* lines 101-135 without the elif of line 120: max_score is not looked at
filter_reason_without_max_score(a, s) ==
    IF s.id \in a.excluded_submission_ids THEN "excluded"
    ELSE IF lower(s.subreddit) \in a.skip_subreddit THEN "skip_subreddit"
    ELSE IF \/ (s.author # None /\ s.author \in a.ignore_user)
            \/ (s.author = None /\ DELETED \in a.ignore_user) THEN "ignore_user"
    ELSE IF a.min_score # 0 /\ s.score < a.min_score THEN "min_score"
    ELSE IF \/ (a.min_score_ratio # 0 /\ s.upvote_ratio < a.min_score_ratio)
            \/ (a.max_score_ratio # 0 /\ a.max_score_ratio < s.upvote_ratio) THEN "score_ratio"
    ELSE IF ~s.is_submission THEN "not_submission"
    ELSE IF ~s.check_url THEN "url"
    ELSE "pass"

\* line 104 without .lower(): the name of the subreddit as it is written
filter_reason_case_sensitive(a, s) ==
    IF s.id \in a.excluded_submission_ids THEN "excluded"
    ELSE IF s.subreddit \in a.skip_subreddit THEN "skip_subreddit"
    ELSE IF \/ (s.author # None /\ s.author \in a.ignore_user)
            \/ (s.author = None /\ DELETED \in a.ignore_user) THEN "ignore_user"
    ELSE IF a.min_score # 0 /\ s.score < a.min_score THEN "min_score"
    ELSE IF a.max_score # 0 /\ a.max_score < s.score THEN "max_score"
    ELSE IF \/ (a.min_score_ratio # 0 /\ s.upvote_ratio < a.min_score_ratio)
            \/ (a.max_score_ratio # 0 /\ a.max_score_ratio < s.upvote_ratio) THEN "score_ratio"
    ELSE IF ~s.is_submission THEN "not_submission"
    ELSE IF ~s.check_url THEN "url"
    ELSE "pass"

\* the first check of lines 101-135 that rejects the submission, "pass"
\* when none does.  A threshold of 0 stands for an unset (falsy) option.
filter_reason(a, s) ==
    IF s.id \in a.excluded_submission_ids THEN "excluded"
    ELSE IF lower(s.subreddit) \in a.skip_subreddit THEN "skip_subreddit"
    ELSE IF \/ (s.author # None /\ s.author \in a.ignore_user)
            \/ (s.author = None /\ DELETED \in a.ignore_user) THEN "ignore_user"
    ELSE IF a.min_score # 0 /\ s.score < a.min_score THEN "min_score"
    ELSE IF a.max_score # 0 /\ a.max_score < s.score THEN "max_score"
    ELSE IF \/ (a.min_score_ratio # 0 /\ s.upvote_ratio < a.min_score_ratio)
            \/ (a.max_score_ratio # 0 /\ a.max_score_ratio < s.upvote_ratio) THEN "score_ratio"
    ELSE IF ~s.is_submission THEN "not_submission"
    ELSE IF ~s.check_url THEN "url"
    ELSE "pass"

-----------------------------------------------------------------------------
(* bdfr/downloader.py: one pass of the loop over the resources, lines 153-192 *)

\* lines 170-180 without the lookup: every fetched resource is written
duplicate_policy_ignored(a, hash_list, resource_hash) == "write"

\* lines 170-180 with the two policies in the other order
duplicate_policy_link_first(a, hash_list, resource_hash) ==
    IF resource_hash \in DOMAIN hash_list
    THEN IF a.make_hard_links THEN "link"
         ELSE IF a.no_dupes THEN "skip"
         ELSE "write"
    ELSE "write"

\* lines 170-180: what is done with a fetched resource, given its hash
duplicate_policy(a, hash_list, resource_hash) ==
    IF resource_hash \in DOMAIN hash_list
    THEN IF a.no_dupes THEN "skip"
         ELSE IF a.make_hard_links THEN "link"
         ELSE "write"
    ELSE "write"

\* a copy in place of the link: `destination` is a new file of the same bytes
link_to_copy(files, existing, destination) ==
    [files EXCEPT ![destination] = [ino |-> destination, data |-> files[existing].data]]

\* line 175, Path.link_to: `destination` becomes a second name of the file
\* at `existing`
link_to(files, existing, destination) ==
    [files EXCEPT ![destination] = files[existing]]

\* lines 182-183: the whole of `data` in a new file at `destination`
write_file(files, destination, data) ==
    [files EXCEPT ![destination] = new_file(destination, data)]

\* lines 182-183 when file.write raises after open() made the file
write_file_broken(files, destination, data) ==
    [files EXCEPT ![destination] = new_file(destination, truncated(data))]

\* line 191 as a new dict: the other hashes are lost
record_hash_alone(hash_list, resource_hash, destination) ==
    (resource_hash :> destination)

\* line 191 left out: the hash list is not told of the file
record_hash_forgotten(hash_list, resource_hash, destination) == hash_list

\* line 191 as setdefault: a hash that is listed keeps its path
record_hash_first_wins(hash_list, resource_hash, destination) ==
    hash_list @@ (resource_hash :> destination)

\* line 191: self.master_hash_list[resource_hash] = destination
record_hash(hash_list, resource_hash, destination) ==
    (resource_hash :> destination) @@ hash_list

\* what res.download may do: fetch the bytes, or (0) raise a
\* BulkDownloaderException
Downloads == Contents \cup {0}

Outcome(destination, hash, kind, reason) ==
    [destination |-> destination, hash |-> hash, kind |-> kind, reason |-> reason]

NoOutcome == Outcome(0, None, "", "")

\* `return` in place of `continue`
return_in_place_of_continue(o) ==
    /\ pc' = "download"
    /\ content' = content
    /\ outcome' = o

\* `continue`, or the end of the loop body: on to the next resource
next_resource(o) ==
    /\ pc' = "resources"
    /\ content' = content - 1
    /\ outcome' = o

\* `continue` in place of `return`
continue_in_place_of_return(o) ==
    /\ pc' = "resources"
    /\ content' = content - 1
    /\ outcome' = o

\* `return`: the rest of the resources is dropped, download() goes on
return_from_submission(o) ==
    /\ pc' = "download"
    /\ content' = content
    /\ outcome' = o

\* an exception no handler of _download_submission or download() catches
raise_uncaught(o) ==
    /\ pc' = "raised"
    /\ content' = content
    /\ outcome' = o

\* the resource's bytes are `data`: lines 168-192.  Which of the calls to
\* the filesystem fail is for the filesystem to say.
commit_fetched(destination, data) ==
    LET resource_hash == hexdigest(data)
        policy == duplicate_policy(args, master_hash_list, resource_hash)
    IN  \/ \* line 169: mkdir raises OSError, nothing catches it
           /\ Parent(destination) \notin dirs
           /\ raise_uncaught(Outcome(destination, resource_hash, "Raised", "mkdir"))
           /\ UNCHANGED <<fs, dirs, master_hash_list>>
        \/ /\ dirs' = dirs \cup {Parent(destination)}
           /\ IF policy = "skip"
              THEN \* lines 171-173
                   /\ return_from_submission(Outcome(destination, resource_hash, "SkippedDuplicate", ""))
                   /\ UNCHANGED <<fs, master_hash_list>>
              ELSE IF policy = "link"
              THEN \/ \* lines 175-180
                      /\ fs[master_hash_list[resource_hash]] # NoFile
                      /\ fs' = link_to(fs, master_hash_list[resource_hash], destination)
                      /\ return_from_submission(Outcome(destination, resource_hash, "Linked", ""))
                      /\ UNCHANGED master_hash_list
                   \/ \* line 175: link_to raises OSError, nothing catches it
                      /\ raise_uncaught(Outcome(destination, resource_hash, "Raised", "link"))
                      /\ UNCHANGED <<fs, master_hash_list>>
              ELSE \/ \* lines 182, 185-188: open() raises OSError
                      /\ return_from_submission(Outcome(destination, resource_hash, "Failed", "write"))
                      /\ UNCHANGED <<fs, master_hash_list>>
                   \/ \* lines 183, 185-188: file.write raises OSError
                      /\ fs' = write_file_broken(fs, destination, data)
                      /\ return_from_submission(Outcome(destination, resource_hash, "Failed", "write"))
                      /\ UNCHANGED master_hash_list
                   \/ \* lines 182-184, then 189-190: mktime or os.utime
                      \* raises, nothing catches it
                      /\ fs' = write_file(fs, destination, data)
                      /\ raise_uncaught(Outcome(destination, resource_hash, "Raised", "utime"))
                      /\ UNCHANGED master_hash_list
                   \/ \* lines 182-184, 189-192
                      /\ fs' = write_file(fs, destination, data)
                      /\ master_hash_list' = record_hash(master_hash_list, resource_hash, destination)
                      /\ next_resource(Outcome(destination, resource_hash, "Written", ""))

\* one pass of the loop of line 153, over the next pair (destination, res)
\* of format_resource_paths: `passes` is download_filter.check_resource(res),
\* `download` what res.download does
commit_resource(destination, passes, download) ==
    /\ pc = "resources"
    /\ content > 0
    /\ UNCHANGED <<args, pulled, submission, downloader_class, found, pool>>
    /\ IF fs[destination] # NoFile
       THEN \* line 154: destination.exists()
            /\ next_resource(Outcome(destination, None, "SkippedExists", ""))
            /\ UNCHANGED <<fs, dirs, master_hash_list>>
       ELSE IF ~passes
       THEN \* line 157: the download filter removes the resource
            /\ next_resource(Outcome(destination, None, "SkippedFiltered", ""))
            /\ UNCHANGED <<fs, dirs, master_hash_list>>
       ELSE IF download = 0
       THEN \* lines 162-167: res.download raised
            /\ return_from_submission(Outcome(destination, None, "Failed", "fetch"))
            /\ UNCHANGED <<fs, dirs, master_hash_list>>
       ELSE commit_fetched(destination, download)

\* line 193: the loop is over
finish_submission ==
    /\ pc = "resources"
    /\ content = 0
    /\ pc' = "download"
    /\ UNCHANGED <<args, fs, dirs, master_hash_list, pulled, submission,
                   downloader_class, content, found, outcome, pool>>

-----------------------------------------------------------------------------
(* bdfr/downloader.py: _download_submission up to the loop, lines 100-152 *)

\* what downloader.find_resources may do: raise a SiteDownloaderError (-1),
\* or give so many resources
FindResources == {-1} \cup (0..MaxResources)

\* the submission is left at once: nothing of the handler's state changes
skip_submission ==
    /\ pc' = "download"
    /\ content' = 0
    /\ UNCHANGED <<fs, dirs, master_hash_list>>

\* line 145 with the name as it is: SelfPost is not "selfpost"
module_disabled_case_sensitive(a, class) == class \in a.disable_module

\* line 145: downloader_class.__name__.lower() in self.args.disable_module
module_disabled(a, class) == lower(class) \in a.disable_module

download_submission(s) ==
    /\ pc = "download"
    /\ pulled < MaxSubmissions
    /\ pulled' = pulled + 1
    /\ submission' = s
    /\ outcome' = NoOutcome
    /\ UNCHANGED <<args, pool>>
    /\ IF filter_reason(args, s) # "pass"
       THEN \* lines 101-135
            /\ downloader_class' = None
            /\ found' = "not_called"
            /\ skip_submission
       ELSE LET class == pull_lever(s.url)
            IN  /\ downloader_class' = class
                /\ IF class = NotADownloadableLinkError
                   THEN \* lines 142-144
                        /\ found' = "not_called"
                        /\ skip_submission
                   ELSE IF module_disabled(args, class)
                   THEN \* lines 145-147
                        /\ found' = "not_called"
                        /\ skip_submission
                   ELSE \E resources \in FindResources :
                        IF resources = -1
                        THEN \* lines 150-152
                             /\ found' = "error"
                             /\ skip_submission
                        ELSE \* line 153
                             /\ found' = "ok"
                             /\ pc' = "resources"
                             /\ content' = resources
                             /\ UNCHANGED <<fs, dirs, master_hash_list>>

\* lines 96-97: the generators of reddit_lists are exhausted
listing_exhausted ==
    /\ pc = "download"
    /\ pc' = "done"
    /\ UNCHANGED <<args, fs, dirs, master_hash_list, pulled, submission,
                   downloader_class, content, found, outcome, pool>>

\* RedditDownloader.__init__, lines 90-93
construct(files) ==
    /\ pc = "init"
    /\ pc' = "download"
    /\ master_hash_list' = IF args.search_existing
                           THEN scan_existing_files(fs, files)
                           ELSE master_hash_list
    /\ UNCHANGED <<args, fs, dirs, pulled, submission, downloader_class,
                   content, found, outcome, pool>>

-----------------------------------------------------------------------------
(* The run: the configuration, the output tree and the listing it meets *)

http == <<"h","t","t","p",":","/","/">>
https == <<"h","t","t","p","s",":","/","/">>
reddit_com == <<"r","e","d","d","i","t",".","c","o","m">>
i_redd_it == <<"i",".","r","e","d","d",".","i","t">>

NoSubmission ==
    [id |-> 0, subreddit |-> None, author |-> None, score |-> 0, upvote_ratio |-> 0,
     is_submission |-> FALSE, check_url |-> FALSE, url |-> None]

\* {id: "abc123", subreddit: "test", score: 50, url: "http://reddit.com/r/test/abc123"}
abc123 ==
    [id |-> 1, subreddit |-> test, author |-> alice, score |-> 50, upvote_ratio |-> 90,
     is_submission |-> TRUE, check_url |-> TRUE,
     url |-> http \o reddit_com \o <<"/","r","/","t","e","s","t","/","a","b","c","1","2","3">>]

\* what the listing of the run may yield
Listing ==
    { abc123,
      [abc123 EXCEPT !.id = 2, !.score = 5],
      [abc123 EXCEPT !.id = 3, !.url = https \o i_redd_it \o <<"/","x",".","p","n","g">>] }

Configurations ==
    [no_dupes : BOOLEAN, make_hard_links : BOOLEAN, search_existing : BOOLEAN,
     excluded_submission_ids : {{}}, skip_subreddit : {{pics}}, ignore_user : {{}},
     min_score : {10}, max_score : {0}, min_score_ratio : {0}, max_score_ratio : {0},
     disable_module : {{}, {selfpost}}]

\* the output trees a run may start on: every file is whole and its own inode
Trees ==
    {tree \in [Paths -> {NoFile} \cup {new_file(0 - p, d) : p \in Paths, d \in Contents}] :
        /\ \A p \in Paths : tree[p] # NoFile => tree[p].ino = 0 - p
        /\ Cardinality({p \in Paths : tree[p] # NoFile}) <= MaxExisting}

\* self.master_hash_list as RedditConnector sets it up: empty
connector_master_hash_list == << >>

Init ==
    /\ pc = "init"
    /\ args \in Configurations
    /\ fs \in Trees
    /\ dirs = {Parent(p) : p \in {q \in Paths : fs[q] # NoFile}}
    /\ master_hash_list = connector_master_hash_list
    /\ pulled = 0
    /\ submission = NoSubmission
    /\ downloader_class = None
    /\ content = 0
    /\ found = "not_called"
    /\ outcome = NoOutcome
    /\ pool = NoPool

Next ==
    \/ \E files \in Enumerations(fs) : construct(files)
    \/ \E s \in Listing : download_submission(s)
    \/ \E destination \in Paths, passes \in BOOLEAN, download \in Downloads :
          commit_resource(destination, passes, download)
    \/ finish_submission
    \/ listing_exhausted

Spec == Init /\ [][Next]_vars

-----------------------------------------------------------------------------
(* DownloadFactory.pull_lever on its own: every URL put together from the  *)
(* pieces below is handed to it once                                       *)

example_com == <<"e","x","a","m","p","l","e",".","c","o","m">>

UrlSchemes == { << >>, http, https }
UrlPrefixes == { << >>, <<"w","w","w",".">> }
UrlHosts == { reddit_com, i_redd_it, example_com }
UrlPaths == {
    << >>,
    <<"/">>,
    <<"/","r","/">>,
    <<"/","r","/","t","e","s","t","/","a","b","c","1","2","3">>,
    <<"/","r","/","t","e","s","t","/","a","b","c",".","p","n","g">>,
    <<"/","r","/","t","e","s","t","/","p","a","g","e",".","h","t","m","l">>,
    <<"/","r","/","p","i","c","s","/","a",".","j","s">>,
    <<"/","r","/","a"," ","b",".","g","i","f">>,
    <<"/","r","/","x",".","P","H","P">>,
    <<"/","r","/","a","w","w","w",".","h","t","m","l">>,
    <<"/","r","/","a",".","b","w","w","w",".","h","t","m">>,
    <<"/","a","/","x",".","p","n","g">>,
    <<"/","i","m","g",".","j","p","e","g">>,
    <<"/","i","n","d","e","x",".","p","h","p","3">>,
    <<"/","g","o","/","r","e","d","d","i","t",".","c","o","m","/","r","/","x",".","h","t","m">> }
UrlQueries == { << >>, <<"?","a","=","1">>, <<"?","f","=","x",".","p","n","g">> }
UrlFragments == { << >>, <<"#","t","o","p">>, <<"#","a","/","b",".","m","p","4">> }

Urls ==
    {scheme \o prefix \o host \o path \o query \o fragment :
        scheme \in UrlSchemes, prefix \in UrlPrefixes, host \in UrlHosts,
        path \in UrlPaths, query \in UrlQueries, fragment \in UrlFragments}

\* line 139 of downloader.py: downloader_class = DownloadFactory.pull_lever(submission.url)
dispatch ==
    /\ pc = "dispatch"
    /\ pc' = "dispatched"
    /\ downloader_class' = pull_lever(submission.url)
    /\ UNCHANGED <<args, fs, dirs, master_hash_list, pulled, submission, content,
                   found, outcome, pool>>

InitDispatch ==
    /\ pc = "dispatch"
    /\ args \in {a \in Configurations :
                    ~a.no_dupes /\ ~a.make_hard_links /\ ~a.search_existing /\ a.disable_module = {}}
    /\ fs = [p \in Paths |-> NoFile]
    /\ dirs = {}
    /\ master_hash_list = connector_master_hash_list
    /\ pulled = 0
    /\ submission \in {[abc123 EXCEPT !.url = url] : url \in Urls}
    /\ downloader_class = None
    /\ content = 0
    /\ found = "not_called"
    /\ outcome = NoOutcome
    /\ pool = NoPool

NextDispatch == dispatch

SpecDispatch == InitDispatch /\ [][NextDispatch]_vars

-----------------------------------------------------------------------------
(* The filters of _download_submission over the configurations and the     *)
(* submissions that make each of them reject and let pass                  *)

PICS == <<"P","I","C","S">>
bob == <<"b","o","b">>

\* self.args.skip_subreddit as RedditConnector sets it up from the names
\* given: every name in lower case
connector_skip_subreddit(given) == {lower(name) : name \in given}

\* the options of the filters, all unset
Unset ==
    [excluded_submission_ids |-> {}, skip_subreddit_given |-> {}, ignore_user |-> {},
     min_score |-> 0, max_score |-> 0, min_score_ratio |-> 0, max_score_ratio |-> 0]

\* a submission of r/Pics by alice, score 50, 90% upvoted
post == [abc123 EXCEPT !.subreddit = Pics]

\* every option set so that `post` passes its check
Satisfied ==
    [excluded_submission_ids |-> {7}, skip_subreddit_given |-> {test}, ignore_user |-> {bob},
     min_score |-> 10, max_score |-> 100, min_score_ratio |-> 50, max_score_ratio |-> 95]

\* for every option, the values that make its check reject `post`, or the
\* same post with its author deleted
Rejecting ==
    [excluded_submission_ids |-> {{1}}, skip_subreddit_given |-> {{pics}, {PICS}},
     ignore_user |-> {{alice}, {DELETED}},
     min_score |-> {60}, max_score |-> {40}, min_score_ratio |-> {95}, max_score_ratio |-> {80}]

\* all options unset, or all satisfied, and at most one of them rejecting
FilterOptions ==
    UNION {UNION {{[base EXCEPT ![k] = v] : v \in Rejecting[k] \cup {base[k]}} :
                      k \in DOMAIN Unset} :
              base \in {Unset, Satisfied}}

\* the configurations of the run; skip_subreddit_given keeps the names of
\* the skip list as they were given
FilterConfigurations ==
    {[no_dupes |-> FALSE, make_hard_links |-> FALSE, search_existing |-> FALSE,
      excluded_submission_ids |-> o.excluded_submission_ids,
      skip_subreddit_given |-> o.skip_subreddit_given,
      skip_subreddit |-> connector_skip_subreddit(o.skip_subreddit_given),
      ignore_user |-> o.ignore_user,
      min_score |-> o.min_score, max_score |-> o.max_score,
      min_score_ratio |-> o.min_score_ratio, max_score_ratio |-> o.max_score_ratio,
      disable_module |-> {}] : o \in FilterOptions}

\* what the listing may yield: the post, a post of an image whose author is
\* deleted, a comment in the stream, a post whose URL the download filter
\* rejects
FilterSubmissions ==
    { post,
      [post EXCEPT !.id = 2, !.author = None,
                   !.url = https \o i_redd_it \o <<"/","x",".","p","n","g">>],
      [post EXCEPT !.id = 3, !.is_submission = FALSE],
      [post EXCEPT !.id = 4, !.check_url = FALSE] }

InitFilter ==
    /\ pc = "download"
    /\ args \in FilterConfigurations
    /\ fs = [p \in Paths |-> NoFile]
    /\ dirs = {}
    /\ master_hash_list = connector_master_hash_list
    /\ pulled = 0
    /\ submission = NoSubmission
    /\ downloader_class = None
    /\ content = 0
    /\ found = "not_called"
    /\ outcome = NoOutcome
    /\ pool = NoPool

NextFilter ==
    \/ \E s \in FilterSubmissions : download_submission(s)
    \/ \E destination \in Paths, passes \in BOOLEAN, download \in Downloads :
          commit_resource(destination, passes, download)
    \/ finish_submission
    \/ listing_exhausted

SpecFilter == InitFilter /\ [][NextFilter]_vars

-----------------------------------------------------------------------------
(* scan_existing_files, lines 196-207, worker by worker: os.walk lists the *)
(* files, pool.map hands them out in that order, the workers return in any *)
(* order, and the dict is built when pool.map has returned                 *)

\* Pool(15)
PoolSize == 15

ScanPaths == 1..NumScanFiles

\* the trees the scan may meet: every file is whole and its own inode
ScanTrees ==
    {tree \in [ScanPaths -> {NoFile} \cup {new_file(0 - p, d) : p \in ScanPaths, d \in Contents}] :
        \A p \in ScanPaths : tree[p] # NoFile => tree[p].ino = 0 - p}

\* imap_unordered in place of map: the result goes to the first free place
pool_result_unordered(results, i, res) ==
    LET place == CHOOSE j \in DOMAIN results :
                     results[j] = None /\ \A k \in 1..(j - 1) : results[k] # None
    IN  [results EXCEPT ![place] = res]

\* pool.map: the result of task i goes to place i of the list it returns
pool_result(results, i, res) == [results EXCEPT ![i] = res]

\* lines 197-203: os.walk has listed `files`; the Pool is made and pool.map
\* called
scan_walk(files) ==
    /\ pc = "init"
    /\ args.search_existing
    /\ pc' = "scan"
    /\ pool' = [files |-> files, taken |-> 0, running |-> {},
                results |-> [i \in DOMAIN files |-> None]]
    /\ UNCHANGED <<args, fs, dirs, master_hash_list, pulled, submission,
                   downloader_class, content, found, outcome>>

\* a worker of the Pool that is free takes the next task of pool.map
worker_takes ==
    /\ pc = "scan"
    /\ pool.taken < Len(pool.files)
    /\ Cardinality(pool.running) < PoolSize
    /\ pool' = [pool EXCEPT !.taken = @ + 1, !.running = @ \cup {pool.taken + 1}]
    /\ UNCHANGED <<pc, args, fs, dirs, master_hash_list, pulled, submission,
                   downloader_class, content, found, outcome>>

\* the worker at task i returns _calc_hash(files[i])
worker_returns(i) ==
    /\ pc = "scan"
    /\ i \in pool.running
    /\ pool' = [pool EXCEPT !.running = @ \ {i},
                            !.results = pool_result(@, i, calc_hash(fs, pool.files[i]))]
    /\ UNCHANGED <<pc, args, fs, dirs, master_hash_list, pulled, submission,
                   downloader_class, content, found, outcome>>

\* lines 203-207 and 93: every task is done, pool.map returns, the dict is
\* built and becomes self.master_hash_list
scan_collect ==
    /\ pc = "scan"
    /\ pool.taken = Len(pool.files)
    /\ pool.running = {}
    /\ pc' = "download"
    /\ master_hash_list' = hash_list_of(pool.results)
    /\ UNCHANGED <<args, fs, dirs, pulled, submission, downloader_class,
                   content, found, outcome, pool>>

InitScan ==
    /\ pc = "init"
    /\ args \in {a \in Configurations :
                    a.search_existing /\ ~a.no_dupes /\ ~a.make_hard_links /\ a.disable_module = {}}
    /\ fs \in ScanTrees
    /\ dirs = {Parent(p) : p \in {q \in ScanPaths : fs[q] # NoFile}}
    /\ master_hash_list = connector_master_hash_list
    /\ pulled = 0
    /\ submission = NoSubmission
    /\ downloader_class = None
    /\ content = 0
    /\ found = "not_called"
    /\ outcome = NoOutcome
    /\ pool = NoPool

NextScan ==
    \/ \E files \in Enumerations(fs) : scan_walk(files)
    \/ worker_takes
    \/ \E i \in DOMAIN pool.files : worker_returns(i)
    \/ scan_collect

SpecScan == InitScan /\ [][NextScan]_vars

-----------------------------------------------------------------------------
(* What the claims speak of *)

\* the state is inside the loop of line 153 with a resource to take: every
\* step from it is one pass of the loop
Pass == pc = "resources" /\ content > 0

\* the file at p was written by this run (it is the inode the run made at p)
WrittenByRun(p) == fs[p] # NoFile /\ fs[p].ino = p

\* the step pulls the next submission of the listing
NextSubmissionPulled == pulled' = pulled + 1 /\ outcome' = NoOutcome

\* the step touches neither the disk nor the index, and takes no resource
NothingCommitted ==
    /\ fs' = fs
    /\ dirs' = dirs
    /\ master_hash_list' = master_hash_list
    /\ outcome' = outcome
    /\ pulled' = pulled

\* s starts with reddit.com/r/
StartsWithSelfPostPattern(s) ==
    /\ Len(s) >= 13
    /\ SubSeq(s, 1, 13) = <<"r","e","d","d","i","t",".","c","o","m","/","r","/">>

\* s ends in a dot and 3 or 4 word characters
EndsInExtension(s) ==
    \E n \in {3, 4} :
        /\ Len(s) > n
        /\ s[Len(s) - n] = "."
        /\ \A k \in (Len(s) - n + 1)..Len(s) : s[k] \in word_chars

\* s ends in a dot and a web-page extension, in any letter case
EndsInWebExtension(s) ==
    \E ext \in web_extensions :
        /\ Len(s) > Len(ext)
        /\ s[Len(s) - Len(ext)] = "."
        /\ lower(SubSeq(s, Len(s) - Len(ext) + 1, Len(s))) = ext

-----------------------------------------------------------------------------
(* C1 *)

\* C1: with no_dupes set, a pass whose resource hash is already in the hash
\* list writes and links nothing and ends as SkippedDuplicate (unless mkdir
\* raised before the lookup); and no two files the run wrote hold the same
\* bytes, so the same bytes committed to two destinations leave one file.
NoDupesWritesOnce ==
    [][ args.no_dupes =>
          /\ (Pass /\ outcome'.hash \in DOMAIN master_hash_list) =>
                /\ fs' = fs
                /\ master_hash_list' = master_hash_list
                /\ outcome'.kind = "SkippedDuplicate" \/ outcome'.reason = "mkdir"
          /\ \A p, q \in Paths :
                (/\ p # q
                 /\ fs'[p] # NoFile /\ fs'[p].ino = p
                 /\ fs'[q] # NoFile /\ fs'[q].ino = q
                 /\ fs'[p].data # truncated(fs'[p].data))
                => fs'[p].data # fs'[q].data ]_vars

\* the second commit of bytes this run wrote at another path was skipped
NoDupesWitness ==
    /\ args.no_dupes
    /\ outcome.kind = "SkippedDuplicate"
    /\ fs[outcome.destination] = NoFile
    /\ \E p \in Paths :
          /\ p # outcome.destination
          /\ WrittenByRun(p)
          /\ hexdigest(fs[p].data) = outcome.hash
          /\ master_hash_list[outcome.hash] = p

-----------------------------------------------------------------------------
(* C2 *)

\* C2: no error of a submission or of one of its resources stops the run:
\* download() never ends by an exception.
NoErrorStopsRun == pc # "raised"

-----------------------------------------------------------------------------
(* C3 *)

\* C3: when the write of a resource fails, the loop goes on with the next
\* resource of the same submission.
WriteFailureContinues ==
    [][ (Pass /\ outcome'.kind = "Failed" /\ outcome'.reason = "write")
          => (pc' = "resources" /\ content' = content - 1) ]_vars

-----------------------------------------------------------------------------
(* C4 *)

\* C4 as stated: every URL whose normalized form starts with reddit.com/r/
\* dispatches to SelfPost.
SelfPostPatternAlwaysSelfPost ==
    (pc = "dispatched" /\ StartsWithSelfPostPattern(sanitise_url(submission.url)))
        => downloader_class = SelfPost

\* C4, amended: every URL whose normalized form starts with reddit.com/r/
\* and does not end in a 3-4 character extension other than a web-page
\* extension dispatches to SelfPost; http://reddit.com/r/test/abc123 does.
SelfPostUnlessFileExtension ==
    pc = "dispatched" =>
        LET sanitised_url == sanitise_url(submission.url)
        IN  /\ (/\ StartsWithSelfPostPattern(sanitised_url)
                /\ EndsInExtension(sanitised_url) => EndsInWebExtension(sanitised_url))
               => downloader_class = SelfPost
            /\ submission.url = abc123.url => downloader_class = SelfPost

\* a self-post URL that ends in a web-page extension was dispatched
SelfPostWitness ==
    /\ pc = "dispatched"
    /\ StartsWithSelfPostPattern(sanitise_url(submission.url))
    /\ EndsInExtension(sanitise_url(submission.url))
    /\ sanitise_url(submission.url) # lower(sanitise_url(submission.url))
    /\ downloader_class = SelfPost

-----------------------------------------------------------------------------
(* C5 *)

\* the path of the URL ends in a web-page extension
PathEndsInWebExtension(url) == EndsInWebExtension(urlsplit(url).path)

\* C5 as stated: every URL whose path ends in a web-page extension raises
\* NotADownloadableLinkError, whatever the host.
WebExtensionAlwaysRaises ==
    (pc = "dispatched" /\ PathEndsInWebExtension(submission.url))
        => downloader_class = NotADownloadableLinkError

\* C5, amended: every URL whose path ends in a web-page extension and whose
\* normalized form does not start with reddit.com/r/ raises
\* NotADownloadableLinkError.
WebExtensionRaisesUnlessSelfPost ==
    (/\ pc = "dispatched"
     /\ PathEndsInWebExtension(submission.url)
     /\ ~StartsWithSelfPostPattern(sanitise_url(submission.url)))
        => downloader_class = NotADownloadableLinkError

\* a URL off reddit.com/r/ that has the shape of a file and ends in a
\* web-page extension was dispatched
WebExtensionWitness ==
    /\ pc = "dispatched"
    /\ PathEndsInWebExtension(submission.url)
    /\ EndsInExtension(sanitise_url(submission.url))
    /\ ~StartsWithSelfPostPattern(sanitise_url(submission.url))
    /\ downloader_class = NotADownloadableLinkError

-----------------------------------------------------------------------------
(* C6 *)

\* C6: with make_hard_links set and no_dupes not, a pass whose resource hash
\* is in the hash list, and in which no call raises, ends as Linked: the
\* destination becomes a second name of the file at the listed path (same
\* inode, bytes of that hash), no other path changes, no new inode is made,
\* and the hash list is as before.
HardLinkOnDuplicate ==
    [][ (/\ args.make_hard_links /\ ~args.no_dupes
         /\ Pass
         /\ outcome'.hash \in DOMAIN master_hash_list
         /\ outcome'.kind # "Raised")
        => LET destination == outcome'.destination
               existing == master_hash_list[outcome'.hash]
           IN  /\ outcome'.kind = "Linked"
               /\ fs[destination] = NoFile
               /\ fs'[destination] = fs[existing]
               /\ fs'[destination] # NoFile
               /\ fs'[destination].ino # destination
               /\ hexdigest(fs'[destination].data) = outcome'.hash
               /\ \A q \in Paths \ {destination} : fs'[q] = fs[q]
               /\ master_hash_list' = master_hash_list ]_vars

\* the first resource of the second submission was linked to a file that
\* this run wrote for the submission before it
HardLinkWitness ==
    /\ args.make_hard_links /\ ~args.no_dupes
    /\ pulled = 2
    /\ content = MaxResources
    /\ outcome.kind = "Linked"
    /\ WrittenByRun(master_hash_list[outcome.hash])
    /\ fs[outcome.destination] = fs[master_hash_list[outcome.hash]]
    /\ outcome.destination # master_hash_list[outcome.hash]

-----------------------------------------------------------------------------
(* C7 *)

\* every hash of the hash list stays mapped to the same path by the step
IndexKept ==
    \A h \in DOMAIN master_hash_list :
        h \in DOMAIN master_hash_list' /\ master_hash_list'[h] = master_hash_list[h]

\* C7 as stated: once h is mapped to p, the hash list maps h to p ever after.
IndexKeepsFirstPath == [][IndexKept]_vars

\* C7, amended: with no_dupes or make_hard_links set, once h is mapped to p
\* the hash list maps h to p ever after; with neither set, a later written
\* resource of the same bytes maps h to its own destination.
IndexKeepsFirstPathUnderPolicy ==
    [][ /\ (args.no_dupes \/ args.make_hard_links) => IndexKept
        /\ (Pass /\ outcome'.kind = "Written")
              => master_hash_list'[outcome'.hash] = outcome'.destination ]_vars

\* the same bytes came again, for another destination, and the hash list
\* still names the first path
IndexKeptWitness ==
    /\ args.no_dupes \/ args.make_hard_links
    /\ outcome.kind \in {"SkippedDuplicate", "Linked"}
    /\ WrittenByRun(master_hash_list[outcome.hash])
    /\ master_hash_list[outcome.hash] # outcome.destination

-----------------------------------------------------------------------------
(* C8 *)

\* C8: no step removes a hash from the hash list; a path enters it (for a
\* new hash or in place of another path) only when a file of that hash is
\* at the path; and a pass changes the hash list only by a write that made
\* the file at a destination where there was none.
IndexGrowsFromFilesOnDisk ==
    [][ /\ DOMAIN master_hash_list \subseteq DOMAIN master_hash_list'
        /\ \A h \in DOMAIN master_hash_list' :
              (h \notin DOMAIN master_hash_list \/ master_hash_list'[h] # master_hash_list[h])
              => /\ fs'[master_hash_list'[h]] # NoFile
                 /\ hexdigest(fs'[master_hash_list'[h]].data) = h
        /\ (Pass /\ master_hash_list' # master_hash_list)
              => /\ outcome'.kind = "Written"
                 /\ fs[outcome'.destination] = NoFile
                 /\ fs'[outcome'.destination].ino = outcome'.destination
                 /\ hexdigest(fs'[outcome'.destination].data) = outcome'.hash ]_vars

\* the hash list holds a file the scan found and a file the run wrote
IndexGrowsWitness ==
    /\ args.search_existing
    /\ \E h \in DOMAIN master_hash_list :
          fs[master_hash_list[h]] # NoFile /\ ~WrittenByRun(master_hash_list[h])
    /\ \E h \in DOMAIN master_hash_list : WrittenByRun(master_hash_list[h])
    /\ outcome.kind = "Written"

-----------------------------------------------------------------------------
(* C9 *)

AfterDuplicate == outcome.kind \in {"SkippedDuplicate", "Linked"}

\* C9: a pass that ends as SkippedDuplicate or Linked leaves the loop and
\* is back in download(); from there the only step that touches the disk,
\* the hash list or a resource is the pull of the next submission.
DuplicateAbortsSubmission ==
    [][ /\ (Pass /\ AfterDuplicate') => pc' = "download"
        /\ (pc = "download" /\ AfterDuplicate)
              => (NextSubmissionPulled \/ NothingCommitted) ]_vars

\* a duplicate was met with a later resource of the submission still to
\* come and the listing not yet at its end
DuplicateAbortsWitness ==
    /\ pc = "download"
    /\ AfterDuplicate
    /\ content > 1
    /\ pulled < MaxSubmissions

-----------------------------------------------------------------------------
(* C10 *)

AfterFetchFailure == outcome.kind = "Failed" /\ outcome.reason = "fetch"

\* C10: a pass whose fetch fails changes neither the disk nor the hash list
\* and leaves the loop; from there the only step that touches the disk, the
\* hash list or a resource is the pull of the next submission.
FetchFailureAbandonsSubmission ==
    [][ /\ (Pass /\ AfterFetchFailure')
              => /\ pc' = "download"
                 /\ fs' = fs
                 /\ dirs' = dirs
                 /\ master_hash_list' = master_hash_list
        /\ (pc = "download" /\ AfterFetchFailure)
              => (NextSubmissionPulled \/ NothingCommitted) ]_vars

\* a fetch failed with a later resource of the submission still to come
FetchFailureWitness ==
    /\ pc = "download"
    /\ AfterFetchFailure
    /\ content > 1
    /\ fs[outcome.destination] = NoFile

-----------------------------------------------------------------------------
(* C11 *)

\* the checks of the filter pipeline, by the option or the property of the
\* submission each looks at
Checks ==
    {"excluded", "skip_subreddit", "ignore_user", "min_score", "max_score",
     "min_score_ratio", "max_score_ratio", "not_submission", "url"}

\* the check, taken on its own, rejects submission s under configuration a
\* (a threshold of 0 is no threshold)
CheckRejects(check, a, s) ==
    CASE check = "excluded" -> s.id \in a.excluded_submission_ids
      [] check = "skip_subreddit" -> \E name \in a.skip_subreddit : name = lower(s.subreddit)
      [] check = "ignore_user" ->
            IF s.author = None THEN DELETED \in a.ignore_user ELSE s.author \in a.ignore_user
      [] check = "min_score" -> a.min_score > 0 /\ s.score < a.min_score
      [] check = "max_score" -> a.max_score > 0 /\ s.score > a.max_score
      [] check = "min_score_ratio" -> a.min_score_ratio > 0 /\ s.upvote_ratio < a.min_score_ratio
      [] check = "max_score_ratio" -> a.max_score_ratio > 0 /\ s.upvote_ratio > a.max_score_ratio
      [] check = "not_submission" -> ~s.is_submission
      [] check = "url" -> ~s.check_url

RejectedByACheck(a, s) == \E check \in Checks : CheckRejects(check, a, s)

\* neither pull_lever nor find_resources was called for the submission, and
\* the loop over its resources is not entered
NeverDispatched(class, finding, position, resources) ==
    /\ class = None
    /\ finding = "not_called"
    /\ position = "download"
    /\ resources = 0

\* C11: the pull of a submission that some check of the filter pipeline
\* rejects calls neither pull_lever nor find_resources, enters no pass of the
\* loop (no fetch, mkdir or write) and leaves the disk and the hash list as
\* they were; and from there the only step that touches the disk, the hash
\* list or a resource is the pull of the next submission.
RejectedBeforeDispatch ==
    [][ /\ (pulled' = pulled + 1 /\ RejectedByACheck(args, submission'))
              => /\ NeverDispatched(downloader_class', found', pc', content')
                 /\ outcome' = NoOutcome
                 /\ fs' = fs
                 /\ dirs' = dirs
                 /\ master_hash_list' = master_hash_list
        /\ (pc = "download" /\ pulled > 0 /\ RejectedByACheck(args, submission))
              => (NextSubmissionPulled \/ NothingCommitted) ]_vars

\* a submission was rejected after the run had written a file for the one
\* before it
RejectedWitness ==
    /\ pc = "download"
    /\ pulled > 1
    /\ RejectedByACheck(args, submission)
    /\ NeverDispatched(downloader_class, found, pc, content)
    /\ \E p \in Paths : WrittenByRun(p) /\ fs[p].data \in Contents

-----------------------------------------------------------------------------
(* C12 *)

\* C12: a pass whose destination exists ends as SkippedExists with nothing
\* fetched (no hash taken), leaves every file, directory and the hash list
\* as they were, and the loop goes on with the next resource.
ExistingDestinationSkipped ==
    [][ (Pass /\ fs[outcome'.destination] # NoFile)
          => /\ outcome'.kind = "SkippedExists"
             /\ outcome'.hash = None
             /\ fs' = fs
             /\ dirs' = dirs
             /\ master_hash_list' = master_hash_list
             /\ pc' = "resources"
             /\ content' = content - 1 ]_vars

\* a destination that a file of the tree held before the run was skipped,
\* with a later resource of the submission still to come
ExistingDestinationWitness ==
    /\ outcome.kind = "SkippedExists"
    /\ fs[outcome.destination] # NoFile
    /\ ~WrittenByRun(outcome.destination)
    /\ pc = "resources"
    /\ content > 0

-----------------------------------------------------------------------------
(* C13 *)

\* the options of the configuration that a check reads, and the check
OptionCheck ==
    [excluded_submission_ids |-> "excluded", skip_subreddit |-> "skip_subreddit",
     ignore_user |-> "ignore_user", min_score |-> "min_score", max_score |-> "max_score",
     min_score_ratio |-> "min_score_ratio", max_score_ratio |-> "max_score_ratio"]

\* what the pipeline says of a rejection by the check: the two bounds of the
\* ratio are one rejection
ReasonLogged(check) ==
    IF check \in {"min_score_ratio", "max_score_ratio"} THEN "score_ratio" ELSE check

\* configuration a is a0 with option k, and no other, changed, to a value
\* that s does not satisfy, and s passes every check under a0
OneOptionTurned(a0, k, a, s) ==
    /\ \A j \in DOMAIN OptionCheck \ {k} : a0[j] = a[j]
    /\ a0[k] # a[k]
    /\ ~RejectedByACheck(a0, s)
    /\ CheckRejects(OptionCheck[k], a, s)

\* C13: when the configuration of the run is that of a run in which the
\* submission passes every check, with exactly one option changed to a value
\* the submission does not satisfy, the pipeline rejects the submission (no
\* dispatch), by that check, and every other check says of it what it said
\* before.
FilterMonotonic ==
    pulled > 0 =>
        \A a0 \in FilterConfigurations, k \in DOMAIN OptionCheck :
            OneOptionTurned(a0, k, args, submission)
            => /\ filter_reason(a0, submission) = "pass"
               /\ filter_reason(args, submission) = ReasonLogged(OptionCheck[k])
               /\ downloader_class = None
               /\ found = "not_called"
               /\ \A check \in Checks \ {OptionCheck[k]} :
                     CheckRejects(check, args, submission) = CheckRejects(check, a0, submission)

\* the post was rejected under a configuration with every option set, all
\* but one to values the post satisfies
FilterMonotonicWitness ==
    /\ pulled > 0
    /\ submission = post
    /\ args.excluded_submission_ids # {} /\ args.skip_subreddit # {} /\ args.ignore_user # {}
    /\ args.min_score > 0 /\ args.max_score > 0
    /\ args.min_score_ratio > 0 /\ args.max_score_ratio > 0
    /\ \E a0 \in FilterConfigurations, k \in DOMAIN OptionCheck :
          OneOptionTurned(a0, k, args, submission)
    /\ downloader_class = None
    /\ found = "not_called"

-----------------------------------------------------------------------------
(* C14 *)

\* the name of the submission's subreddit is, but for the case of its
\* letters, one of the names given for the skip list
InSkipListGiven(a, s) ==
    \E name \in a.skip_subreddit_given : lower(name) = lower(s.subreddit)

-----------------------------------------------------------------------------
(* C15 *)

\* the hashes of the files of the tree
HashesOnDisk == {hexdigest(fs[p].data) : p \in {q \in DOMAIN fs : fs[q] # NoFile}}

\* the last file of the enumeration whose bytes hash to h
LastEnumerated(files, h) ==
    files[CHOOSE i \in DOMAIN files :
              /\ hexdigest(fs[files[i]].data) = h
              /\ \A j \in (i + 1)..Len(files) : hexdigest(fs[files[j]].data) # h]

\* C15: while the workers are at the files the hash list is as it was (no
\* part of the result shows); once the scan has returned, the hash list has
\* one entry for every hash of a file of the tree and no other, and each
\* maps to the last file of that hash in the order of the enumeration,
\* whatever the order in which the workers returned.
ScanKeepsLastEnumerated ==
    /\ pc = "scan" => master_hash_list = connector_master_hash_list
    /\ pc = "download" =>
          /\ pool.files \in Enumerations(fs)
          /\ DOMAIN master_hash_list = HashesOnDisk
          /\ \A h \in HashesOnDisk : master_hash_list[h] = LastEnumerated(pool.files, h)

\* the scan has returned from a tree with two files of the same bytes, the
\* one listed later being the one of the lower path, and a third file
ScanWitness ==
    /\ pc = "download"
    /\ Cardinality(HashesOnDisk) > 1
    /\ \E i, j \in DOMAIN pool.files :
          /\ i < j
          /\ pool.files[j] < pool.files[i]
          /\ fs[pool.files[i]].data = fs[pool.files[j]].data
          /\ master_hash_list[hexdigest(fs[pool.files[j]].data)] = pool.files[j]

-----------------------------------------------------------------------------
(* C16 *)

\* s has the shape of a file that is no web page: after a slash, it ends in
\* a dot and 3 or 4 word characters that are no web-page extension
MatchesFileExtensionRule(s) ==
    /\ \E n \in {3, 4} :
          /\ Len(s) > n
          /\ s[Len(s) - n] = "."
          /\ \A k \in (Len(s) - n + 1)..Len(s) : s[k] \in word_chars
          /\ \E i \in 1..(Len(s) - n - 1) : s[i] = "/"
    /\ ~EndsInWebExtension(s)

\* C16: a URL whose normalized form matches the file-extension rule raises
\* NotADownloadableLinkError, also when it starts with reddit.com/r/; when
\* the rule does not match, the self-post pattern decides.
FileExtensionRuleFirst ==
    pc = "dispatched" =>
        LET sanitised_url == sanitise_url(submission.url)
        IN  IF MatchesFileExtensionRule(sanitised_url)
            THEN downloader_class = NotADownloadableLinkError
            ELSE downloader_class = SelfPost <=> StartsWithSelfPostPattern(sanitised_url)

\* a URL that matches both rules was dispatched, and raised
FileExtensionRuleWitness ==
    /\ pc = "dispatched"
    /\ MatchesFileExtensionRule(sanitise_url(submission.url))
    /\ StartsWithSelfPostPattern(sanitise_url(submission.url))
    /\ downloader_class = NotADownloadableLinkError

-----------------------------------------------------------------------------
(* C17 *)

\* dispatch gave a class whose name, in lower case, is a disabled module
DisabledClass(a, class) ==
    /\ class # None
    /\ class # NotADownloadableLinkError
    /\ lower(class) \in a.disable_module

\* C17: the pull of a submission whose class is a disabled module ends
\* after dispatch: find_resources is not called, no pass of the loop is
\* entered (no fetch, no write), and the disk and the hash list are as they
\* were; from there the only step that touches the disk, the hash list or a
\* resource is the pull of the next submission.
DisabledModuleSkipped ==
    [][ /\ (pulled' = pulled + 1 /\ DisabledClass(args, downloader_class'))
              => /\ found' = "not_called"
                 /\ pc' = "download"
                 /\ content' = 0
                 /\ outcome' = NoOutcome
                 /\ fs' = fs
                 /\ dirs' = dirs
                 /\ master_hash_list' = master_hash_list
        /\ (pc = "download" /\ pulled > 0 /\ DisabledClass(args, downloader_class))
              => (NextSubmissionPulled \/ NothingCommitted) ]_vars

\* a submission passed the filters, was dispatched to SelfPost and was
\* left there, selfpost being disabled
DisabledModuleWitness ==
    /\ pc = "download"
    /\ pulled > 0
    /\ downloader_class = SelfPost
    /\ selfpost \in args.disable_module
    /\ ~RejectedByACheck(args, submission)
    /\ found = "not_called"
    /\ content = 0

-----------------------------------------------------------------------------
(* C18 *)

\* the kinds of outcome of a pass that returns one
OutcomeKinds ==
    {"Written", "SkippedExists", "SkippedFiltered", "SkippedDuplicate", "Linked", "Failed"}

\* C18: a pass that ends as Written leaves the hash list mapping the hash
\* of the resource to its destination, every other hash as before, with
\* the loop about to take the next resource; a pass that ends in any other
\* way leaves the hash list as it was, and a linked destination is not in
\* it.
OnlyWrittenChangesIndex ==
    [][ Pass =>
          /\ outcome'.kind \in OutcomeKinds \cup {"Raised"}
          /\ IF outcome'.kind = "Written"
             THEN /\ DOMAIN master_hash_list' = DOMAIN master_hash_list \cup {outcome'.hash}
                  /\ master_hash_list'[outcome'.hash] = outcome'.destination
                  /\ \A h \in DOMAIN master_hash_list \ {outcome'.hash} :
                        master_hash_list'[h] = master_hash_list[h]
                  /\ hexdigest(fs'[outcome'.destination].data) = outcome'.hash
                  /\ pc' = "resources"
             ELSE master_hash_list' = master_hash_list
          /\ outcome'.kind = "Linked"
                => master_hash_list'[outcome'.hash] # outcome'.destination ]_vars

\* a resource was written whose bytes the run had written before at another
\* path, and the hash list names the new destination
OnlyWrittenWitness ==
    /\ outcome.kind = "Written"
    /\ master_hash_list[outcome.hash] = outcome.destination
    /\ \E p \in Paths \ {outcome.destination} :
          WrittenByRun(p) /\ hexdigest(fs[p].data) = outcome.hash

-----------------------------------------------------------------------------
(* C19 *)

\* C19: with no_dupes and make_hard_links both set, a pass whose resource
\* hash is in the hash list makes no link and no file (the destination is
\* absent after it as before), leaves the hash list as it was, and ends as
\* SkippedDuplicate (unless mkdir raised before the lookup).
NoDupesBeforeHardLinks ==
    [][ (/\ args.no_dupes /\ args.make_hard_links
         /\ Pass
         /\ outcome'.hash \in DOMAIN master_hash_list)
        => /\ outcome'.kind = "SkippedDuplicate" \/ outcome'.reason = "mkdir"
           /\ fs' = fs
           /\ fs'[outcome'.destination] = NoFile
           /\ master_hash_list' = master_hash_list ]_vars

\* with both policies set, bytes that are on disk came again for a
\* destination that is free, and were skipped
NoDupesBeforeHardLinksWitness ==
    /\ args.no_dupes /\ args.make_hard_links
    /\ outcome.kind = "SkippedDuplicate"
    /\ fs[outcome.destination] = NoFile
    /\ fs[master_hash_list[outcome.hash]] # NoFile
    /\ \A p \in Paths : fs[p] # NoFile => fs[p].ino \in {p, 0 - p}

=============================================================================
